---------------------------- MODULE Spec2Model ----------------------------
(***************************************************************************)
(* Model of the note store of src/shortee_app.py (class Note, class        *)
(* NotesService) and of the dialog of ShorteeApp that creates notes.       *)
(*                                                                         *)
(* Spec follows one backing file through constructions of the store and    *)
(* its mutating calls; QuerySpec runs the read-only calls on every         *)
(* collection a store can hold (StoreShape ties the two together).         *)
(* SummarySpec runs Summarizer.summarize on texts built from a small       *)
(* vocabulary, RankSpec sorts two scored sentences of a long text, AppSpec *)
(* drives the store through the handlers of ShorteeApp, MailSpec follows   *)
(* one EmailService.send_email call from the Send button to the end of its *)
(* thread, and NotesAppSpec runs the handlers of class NotesApp of         *)
(* src/exp1.py on its list of notes.                                       *)
(*                                                                         *)
(* Strings are sequences of one-character strings over a small alphabet.   *)
(* Timestamps (datetime.now().isoformat()) are modelled by the integer     *)
(* clock reading they encode: isoformat() is injective and its             *)
(* lexicographic order is the chronological order, and the code only ever  *)
(* compares timestamps for equality (ids) or order (sort keys).  The value *)
(* 0 stands for a falsy id / created_at (None or the empty string).        *)
(***************************************************************************)
EXTENDS Integers, Sequences, FiniteSets, TLC

VARIABLES
    svc,      \* "Uninitialized" before NotesService.__init__ ran, then "Loaded"
    notes,    \* NotesService.notes of the live store instance
    file,     \* the backing file (self.filename) on disk
    clock,    \* the last reading of datetime.now()
    last,     \* the last call: its arguments, its result and what it did
    sel,      \* ShorteeApp.selected_note_id (0 is None)
    editor,   \* the text of ShorteeApp.content_text
    summary,  \* the last call of Summarizer.summarize
    mail,     \* the EmailService.send_email call in progress
    notesapp  \* the NotesApp object of src/exp1.py and its widgets

vars == <<svc, notes, file, clock, last, sel, editor, summary, mail, notesapp>>

\* what the store's own methods never touch
outside == <<sel, editor, summary, mail, notesapp>>

----------------------------------------------------------------------------
(* Bounds *)

MaxNotes == 2
MaxClock == 2

\* the pieces of a text handed to the summarizer
MaxPieces == 5

----------------------------------------------------------------------------
(* Strings *)

Chars == {" ", "A", "B", "a", "b"}

\* ord(c)
Code(c) ==
    CASE c = " " -> 32
      [] c = "A" -> 65
      [] c = "B" -> 66
      [] c = "a" -> 97
      [] c = "b" -> 98

\* str.lower(), per character
LowerChar(c) ==
    CASE c = "A" -> "a"
      [] c = "B" -> "b"
      [] c = "C" -> "c"
      [] c = "D" -> "d"
      [] c = "E" -> "e"
      [] c = "F" -> "f"
      [] c = "G" -> "g"
      [] c = "H" -> "h"
      [] c = "I" -> "i"
      [] c = "J" -> "j"
      [] c = "K" -> "k"
      [] c = "L" -> "l"
      [] c = "M" -> "m"
      [] c = "N" -> "n"
      [] c = "O" -> "o"
      [] c = "P" -> "p"
      [] c = "Q" -> "q"
      [] c = "R" -> "r"
      [] c = "S" -> "s"
      [] c = "T" -> "t"
      [] c = "U" -> "u"
      [] c = "V" -> "v"
      [] c = "W" -> "w"
      [] c = "X" -> "x"
      [] c = "Y" -> "y"
      [] c = "Z" -> "z"
      [] OTHER -> c

Lower(s) == [i \in 1..Len(s) |-> LowerChar(s[i])]

\* str.isspace, \s
IsSpace(c) == c \in {" ", "\n"}

\* str.strip()
Strip(s) ==
    LET nonSpace == {i \in 1..Len(s) : ~IsSpace(s[i])}
    IN  IF nonSpace = {} THEN <<>>
        ELSE LET lo == CHOOSE i \in nonSpace : \A j \in nonSpace : i <= j
                 hi == CHOOSE i \in nonSpace : \A j \in nonSpace : i >= j
             IN  SubSeq(s, lo, hi)

\* needle in hay
Contains(hay, needle) ==
    \E i \in 0..(Len(hay) - Len(needle)) :
        SubSeq(hay, i + 1, i + Len(needle)) = needle

\* a < b on str: code-point lexicographic order
StrLess(a, b) ==
    \E k \in 1..(Len(b)) :
        /\ k <= Len(a) + 1
        /\ \A j \in 1..(k - 1) : a[j] = b[j]
        /\ \/ k = Len(a) + 1
           \/ Code(a[k]) < Code(b[k])

----------------------------------------------------------------------------
(* Sequences *)

RECURSIVE Reverse(_)
Reverse(s) == IF s = <<>> THEN <<>> ELSE Append(Reverse(Tail(s)), Head(s))

\* the order of sorted(...) under a key: which key, compared how
KeyLess(key, a, b) ==
    CASE key = "created_at" -> a.created_at < b.created_at
      [] key = "title"      -> StrLess(a.title, b.title)
      [] key = "rank"       -> \/ a.score > b.score
                               \/ a.score = b.score /\ a.idx < b.idx
      [] key = "idx"        -> a.idx < b.idx
      [] key = "date"       -> a.date < b.date
      [] key = "title_lower" -> StrLess(Lower(a.title), Lower(b.title))

\* insert x behind every element that is not greater than it
RECURSIVE InsertStable(_, _, _)
InsertStable(x, s, key) ==
    IF s = <<>> THEN <<x>>
    ELSE IF KeyLess(key, x, Head(s)) THEN <<x>> \o s
         ELSE <<Head(s)>> \o InsertStable(x, Tail(s), key)

\* sorted(s, key=...): list.sort is stable, and a stable sort has one result
RECURSIVE StableSort(_, _)
StableSort(s, key) ==
    IF s = <<>> THEN <<>>
    ELSE InsertStable(s[Len(s)], StableSort(SubSeq(s, 1, Len(s) - 1), key), key)

\* sorted(...)[::-1] in place of reverse=True: equal keys come out reversed
SortedReverse_Backwards(s, key) == Reverse(StableSort(s, key))

\* sorted(s, key=..., reverse=True): CPython reverses, sorts stably, reverses
SortedReverse(s, key) == Reverse(StableSort(Reverse(s), key))

----------------------------------------------------------------------------
(* class Note *)

NoteFields == {"id", "title", "content", "created_at", "updated_at"}

Falsy(x) == x = 0

\* Note.__init__ with updated_at read before created_at
NoteInit_UpdatedFirst(title, content, note_id, created_at, ts) ==
    [id         |-> IF Falsy(note_id) THEN ts[1] ELSE note_id,
     title      |-> title,
     content    |-> content,
     created_at |-> IF Falsy(created_at) THEN ts[3] ELSE created_at,
     updated_at |-> ts[2]]

\* Note.__init__: ts are the three readings of datetime.now(), in call order
NoteInit(title, content, note_id, created_at, ts) ==
    [id         |-> IF Falsy(note_id) THEN ts[1] ELSE note_id,
     title      |-> title,
     content    |-> content,
     created_at |-> IF Falsy(created_at) THEN ts[2] ELSE created_at,
     updated_at |-> ts[3]]

\* Note.to_dict
to_dict(note) ==
    [id         |-> note.id,
     title      |-> note.title,
     content    |-> note.content,
     created_at |-> note.created_at,
     updated_at |-> note.updated_at]

\* the keys Note.from_dict subscripts; a missing one raises KeyError
FromDictKeys == {"title", "content", "id", "created_at"}

\* Note.from_dict
from_dict(data, ts) ==
    NoteInit(data.title, data.content, data.id, data.created_at, ts)

----------------------------------------------------------------------------
(* The environment: the clock and the backing file *)

\* n successive readings of datetime.now(): the clock never runs backwards,
\* and two readings may be equal
Readings(n) ==
    {r \in [1..n -> clock..MaxClock] : \A i \in 1..(n - 1) : r[i] <= r[i + 1]}

\* how json.dump into the opened file can end: it completes, or it raises
\* after open(filename, 'w') has truncated the file
DumpOutcomes == {"ok", "write_fail"}

\* The file at self.filename: whether it exists, whether the process may read
\* and may write it (the permissions do not change while the program runs),
\* whether its text parses as JSON, and the parsed list of records.

\* no file at self.filename
NoFile(writable) ==
    [exists |-> FALSE, readable |-> FALSE, writable |-> writable,
     json |-> FALSE, data |-> <<>>]

\* a file the process may not read
UnreadableFile(writable) ==
    [exists |-> TRUE, readable |-> FALSE, writable |-> writable,
     json |-> TRUE, data |-> <<>>]

\* a file that is not JSON
GarbageFile(writable) ==
    [exists |-> TRUE, readable |-> TRUE, writable |-> writable,
     json |-> FALSE, data |-> <<>>]

\* a JSON list with a record that lacks 'title'
PartialRecordFile(writable) ==
    [exists |-> TRUE, readable |-> TRUE, writable |-> writable, json |-> TRUE,
     data |-> << [id |-> 1, content |-> <<"b">>, created_at |-> 1, updated_at |-> 1] >>]

InitialFiles ==
    {NoFile(w) : w \in BOOLEAN} \cup {UnreadableFile(w) : w \in BOOLEAN}
        \cup {GarbageFile(w) : w \in BOOLEAN}
        \cup {PartialRecordFile(w) : w \in BOOLEAN}

----------------------------------------------------------------------------
(* class NotesService *)

\* the try block of _load_notes runs to its second return
LoadSucceeds(f) ==
    /\ f.exists
    /\ f.readable
    /\ f.json
    /\ \A i \in 1..Len(f.data) : FromDictKeys \subseteq DOMAIN f.data[i]

\* NotesService._load_notes: r[i] is the clock reading taken while the i-th
\* record is built (from_dict passes id and created_at, so Note.__init__ reads
\* the clock for updated_at)
_load_notes(f, r) ==
    IF ~f.exists THEN [notes |-> <<>>, error |-> FALSE]
    ELSE IF ~LoadSucceeds(f) THEN [notes |-> <<>>, error |-> TRUE]
    ELSE [notes |-> [i \in 1..Len(f.data) |->
                        from_dict(f.data[i], <<r[i], r[i], r[i]>>)],
          error |-> FALSE]

\* NotesService._save_notes: the file it leaves and the value it returns.
\* open(..., 'w') raises on a file that may not be written and leaves it as it
\* is; once it has truncated the file, a failure leaves no valid JSON.
_save_notes(ns, f, w) ==
    IF ~f.writable THEN [file |-> f, ok |-> FALSE]
    ELSE IF w = "ok"
    THEN [file |-> [f EXCEPT !.exists = TRUE,
                             !.readable = IF f.exists THEN f.readable ELSE TRUE,
                             !.json = TRUE,
                             !.data = [i \in 1..Len(ns) |-> to_dict(ns[i])]],
          ok |-> TRUE]
    ELSE [file |-> [f EXCEPT !.exists = TRUE,
                             !.readable = IF f.exists THEN f.readable ELSE TRUE,
                             !.json = FALSE,
                             !.data = <<>>],
          ok |-> FALSE]

\* the index of the first note with this id, 0 when there is none
\* (for note in self.notes: if note.id == note_id)
FindNote(ns, note_id) ==
    IF \E i \in 1..Len(ns) : ns[i].id = note_id
    THEN CHOOSE i \in 1..Len(ns) :
            /\ ns[i].id = note_id
            /\ \A j \in 1..(i - 1) : ns[j].id # note_id
    ELSE 0

\* list.pop(i)
Pop(ns, i) == SubSeq(ns, 1, i - 1) \o SubSeq(ns, i + 1, Len(ns))

\* NotesService.get_note
get_note(ns, note_id) ==
    IF FindNote(ns, note_id) = 0 THEN <<>> ELSE <<ns[FindNote(ns, note_id)]>>

\* search_notes without query = query.lower()
search_notes_RawQuery(ns, query) ==
    SelectSeq(ns, LAMBDA n : Contains(Lower(n.title), query)
                             \/ Contains(Lower(n.content), query))

\* NotesService.search_notes
search_notes(ns, query) ==
    LET q == Lower(query)
    IN  SelectSeq(ns, LAMBDA n : Contains(Lower(n.title), q)
                                 \/ Contains(Lower(n.content), q))

\* NotesService.sort_notes
sort_notes(ns, sort_by) ==
    CASE sort_by = "date_desc" -> SortedReverse(ns, "created_at")
      [] sort_by = "date_asc"  -> StableSort(ns, "created_at")
      [] sort_by = "title"     -> StableSort(ns, "title")
      [] OTHER                 -> ns

----------------------------------------------------------------------------
(* Inputs *)

\* the (title, content) pairs a caller passes
Texts ==
    { [title |-> <<" ">>, content |-> <<"A", "b">>],
      [title |-> <<"a">>, content |-> <<>>],
      [title |-> <<"B">>, content |-> <<"b">>] }

Queries == { <<>>, <<"a">>, <<"A", "B">> }

SortCriteria == {"date_desc", "date_asc", "title", "name"}

\* the ids a caller may pass: every id the clock can have produced
Ids == 1..MaxClock

----------------------------------------------------------------------------
(* The record of the last call *)

\* ret: "True", "False", "None", "note" (retNotes holds it), "list" (retNotes
\* is it), "rejected" (a validation error was reported), "none" (no value);
\* save: "not_called", "ok" or "failed", the outcome of _save_notes;
\* error: logger.error was called; raised: an exception left the call
NoCall ==
    [op |-> "none", id |-> 0, title |-> <<>>, content |-> <<>>,
     query |-> <<>>, sort_by |-> "", ret |-> "none", retNotes |-> <<>>,
     save |-> "not_called", error |-> FALSE, raised |-> FALSE]

SaveResult(ok) == IF ok THEN "ok" ELSE "failed"

\* no call of Summarizer.summarize (returned, picked, out) and none of
\* Summarizer._sentences (split, sentences) yet
NoSummary ==
    [text |-> <<>>, max_sentences |-> 0, returned |-> FALSE,
     picked |-> <<>>, out |-> <<>>, split |-> FALSE, sentences |-> <<>>]

\* no call of EmailService.send_email yet.  caller: how the call ended on
\* the thread of its caller ("returned" or "raised"); pc, exc, sent and the
\* counts of callback calls follow the thread that runs _send
NoMail ==
    [pc |-> "idle", handler |-> "none", checks |-> <<>>, caller |-> "none",
     recipient |-> <<>>, sender |-> <<>>, password |-> <<>>,
     on_success |-> "none", on_error |-> "none",
     pending |-> "none", exc |-> "none", sent |-> FALSE,
     success_calls |-> 0, error_calls |-> 0, raised |-> FALSE]

\* NotesApp.__init__ of src/exp1.py before load_notes: no note, an empty
\* listbox without selection (curselection() is ()), empty entries
NoNotesApp ==
    [notes |-> <<>>, filtered_notes |-> <<>>, sort_by |-> "date_desc",
     current_search |-> <<>>, selection |-> <<>>, title_entry |-> <<>>,
     content_text |-> <<>>, tags_var |-> <<>>]

----------------------------------------------------------------------------
(* Operations *)

Init ==
    /\ svc = "Uninitialized"
    /\ notes = <<>>
    /\ file \in InitialFiles
    /\ clock = 1
    /\ last = NoCall
    /\ sel = 0
    /\ editor = <<>>
    /\ summary = NoSummary
    /\ mail = NoMail
    /\ notesapp = NoNotesApp

\* NotesService.__init__ (a fresh store instance on the same file)
Construct ==
    \E r \in Readings(IF LoadSucceeds(file) THEN Len(file.data) ELSE 0) :
        LET loaded == _load_notes(file, r)
        IN  /\ svc' = "Loaded"
            /\ notes' = loaded.notes
            /\ clock' = IF loaded.notes = <<>> THEN clock ELSE r[Len(r)]
            /\ last' = [NoCall EXCEPT !.op = "construct", !.error = loaded.error]
            /\ UNCHANGED <<file, outside>>

\* add_note with self._save_notes() before self.notes.append(note)
add_note_SaveFirst(title, content, ts, w) ==
    LET note  == NoteInit(title, content, 0, 0, ts)
        saved == _save_notes(notes, file, w)
    IN  /\ notes' = Append(notes, note)
        /\ file' = saved.file
        /\ clock' = ts[3]
        /\ last' = [NoCall EXCEPT !.op = "add", !.title = title,
                                  !.content = content, !.ret = "note",
                                  !.retNotes = <<note>>,
                                  !.save = SaveResult(saved.ok),
                                  !.error = ~saved.ok]
        /\ UNCHANGED svc

\* NotesService.add_note
add_note(title, content, ts, w) ==
    LET note  == NoteInit(title, content, 0, 0, ts)
        saved == _save_notes(Append(notes, note), file, w)
    IN  /\ notes' = Append(notes, note)
        /\ file' = saved.file
        /\ clock' = ts[3]
        /\ last' = [NoCall EXCEPT !.op = "add", !.title = title,
                                  !.content = content, !.ret = "note",
                                  !.retNotes = <<note>>,
                                  !.save = SaveResult(saved.ok),
                                  !.error = ~saved.ok]
        /\ UNCHANGED svc

AddNote ==
    /\ svc = "Loaded"
    /\ Len(notes) < MaxNotes
    /\ \E x \in Texts, ts \in Readings(3), w \in DumpOutcomes :
            add_note(x.title, x.content, ts, w)
    /\ UNCHANGED outside

\* update_note with self._save_notes() after the loop instead of inside it
update_note_SaveAlways(note_id, title, content, t, w) ==
    LET i       == FindNote(notes, note_id)
        changed == IF i = 0 THEN notes
                   ELSE [notes EXCEPT ![i].title = title,
                                      ![i].content = content,
                                      ![i].updated_at = t]
        saved   == _save_notes(changed, file, w)
    IN  /\ notes' = changed
        /\ file' = saved.file
        /\ clock' = IF i = 0 THEN clock ELSE t
        /\ last' = [NoCall EXCEPT !.op = "update", !.id = note_id,
                                  !.title = title, !.content = content,
                                  !.ret = IF i = 0 THEN "False" ELSE "True",
                                  !.save = SaveResult(saved.ok),
                                  !.error = ~saved.ok]
        /\ UNCHANGED svc

\* update_note that puts a new Note(title, content, note_id) in the place of
\* the old one
update_note_NewNote(note_id, title, content, t, w) ==
    LET i == FindNote(notes, note_id)
    IN  IF i = 0
        THEN /\ last' = [NoCall EXCEPT !.op = "update", !.id = note_id,
                                       !.title = title, !.content = content,
                                       !.ret = "False"]
             /\ UNCHANGED <<svc, notes, file, clock>>
        ELSE LET changed == [notes EXCEPT ![i] =
                                NoteInit(title, content, note_id, 0, <<t, t, t>>)]
                 saved   == _save_notes(changed, file, w)
             IN  /\ notes' = changed
                 /\ file' = saved.file
                 /\ clock' = t
                 /\ last' = [NoCall EXCEPT !.op = "update", !.id = note_id,
                                           !.title = title, !.content = content,
                                           !.ret = "True",
                                           !.save = SaveResult(saved.ok),
                                           !.error = ~saved.ok]
                 /\ UNCHANGED svc

\* NotesService.update_note: t is the clock reading for updated_at
update_note(note_id, title, content, t, w) ==
    LET i == FindNote(notes, note_id)
    IN  IF i = 0
        THEN /\ last' = [NoCall EXCEPT !.op = "update", !.id = note_id,
                                       !.title = title, !.content = content,
                                       !.ret = "False"]
             /\ UNCHANGED <<svc, notes, file, clock>>
        ELSE LET changed == [notes EXCEPT ![i].title = title,
                                          ![i].content = content,
                                          ![i].updated_at = t]
                 saved   == _save_notes(changed, file, w)
             IN  /\ notes' = changed
                 /\ file' = saved.file
                 /\ clock' = t
                 /\ last' = [NoCall EXCEPT !.op = "update", !.id = note_id,
                                           !.title = title, !.content = content,
                                           !.ret = "True",
                                           !.save = SaveResult(saved.ok),
                                           !.error = ~saved.ok]
                 /\ UNCHANGED svc

UpdateNote ==
    /\ svc = "Loaded"
    /\ \E note_id \in Ids, x \in Texts, r \in Readings(1), w \in DumpOutcomes :
            update_note(note_id, x.title, x.content, r[1], w)
    /\ UNCHANGED outside

\* NotesService.delete_note
delete_note(note_id, w) ==
    LET i == FindNote(notes, note_id)
    IN  IF i = 0
        THEN /\ last' = [NoCall EXCEPT !.op = "delete", !.id = note_id,
                                       !.ret = "False"]
             /\ UNCHANGED <<svc, notes, file, clock>>
        ELSE LET saved == _save_notes(Pop(notes, i), file, w)
             IN  /\ notes' = Pop(notes, i)
                 /\ file' = saved.file
                 /\ last' = [NoCall EXCEPT !.op = "delete", !.id = note_id,
                                           !.ret = "True",
                                           !.save = SaveResult(saved.ok),
                                           !.error = ~saved.ok]
                 /\ UNCHANGED <<svc, clock>>

DeleteNote ==
    /\ svc = "Loaded"
    /\ \E note_id \in Ids, w \in DumpOutcomes : delete_note(note_id, w)
    /\ UNCHANGED outside

\* a call of NotesService.get_note
GetNote ==
    /\ svc = "Loaded"
    /\ \E note_id \in Ids :
        LET found == get_note(notes, note_id)
        IN  last' = [NoCall EXCEPT !.op = "get", !.id = note_id,
                                   !.ret = IF found = <<>> THEN "None" ELSE "note",
                                   !.retNotes = found]
    /\ UNCHANGED <<svc, notes, file, clock, outside>>

\* a call of NotesService.search_notes
SearchNotes ==
    /\ svc = "Loaded"
    /\ \E query \in Queries :
        last' = [NoCall EXCEPT !.op = "search", !.query = query,
                               !.ret = "list",
                               !.retNotes = search_notes(notes, query)]
    /\ UNCHANGED <<svc, notes, file, clock, outside>>

\* NotesService.get_all_notes
GetAllNotes ==
    /\ svc = "Loaded"
    /\ last' = [NoCall EXCEPT !.op = "get_all", !.ret = "list", !.retNotes = notes]
    /\ UNCHANGED <<svc, notes, file, clock, outside>>

\* sort_notes that sorts self.notes in place (self.notes.sort) and returns it
SortNotes_InPlace ==
    /\ svc = "Loaded"
    /\ \E sort_by \in SortCriteria :
        /\ notes' = sort_notes(notes, sort_by)
        /\ last' = [NoCall EXCEPT !.op = "sort", !.sort_by = sort_by,
                                  !.ret = "list",
                                  !.retNotes = sort_notes(notes, sort_by)]
    /\ UNCHANGED <<svc, file, clock, outside>>

\* a call of NotesService.sort_notes
SortNotes ==
    /\ svc = "Loaded"
    /\ \E sort_by \in SortCriteria :
        last' = [NoCall EXCEPT !.op = "sort", !.sort_by = sort_by,
                               !.ret = "list",
                               !.retNotes = sort_notes(notes, sort_by)]
    /\ UNCHANGED <<svc, notes, file, clock, outside>>

\* notes_tree.insert('', 'end', iid=note.id, ...) for each row in turn: Tk
\* refuses an iid the tree already holds (TclError), which ends the loop of
\* the handler; the rows inserted until then stay in the tree
TreeInsert(rows) ==
    LET fits == {k \in 0..Len(rows) :
                    \A i, j \in 1..k : rows[i].id = rows[j].id => i = j}
        n    == CHOOSE k \in fits : \A m \in fits : m <= k
    IN  [rows |-> SubSeq(rows, 1, n), raised |-> n < Len(rows)]

\* ShorteeApp._on_search: the rows of notes_tree when the handler ends
_on_search(ns, query) ==
    LET results == IF query # <<>> THEN search_notes(ns, query) ELSE ns
    IN  TreeInsert(SortedReverse(results, "created_at"))

\* the user changes the text of the search box
OnSearch ==
    /\ svc = "Loaded"
    /\ \E query \in Queries :
        LET tree == _on_search(notes, query)
        IN  last' = [NoCall EXCEPT !.op = "on_search", !.query = query,
                                   !.ret = "none", !.retNotes = tree.rows,
                                   !.raised = tree.raised]
    /\ UNCHANGED <<svc, notes, file, clock, outside>>

\* ShorteeApp._new_note.save: the Create button of the New Note dialog
NewNoteSave ==
    /\ svc = "Loaded"
    /\ Len(notes) < MaxNotes
    /\ \E x \in Texts, ts \in Readings(3), w \in DumpOutcomes :
        LET title   == Strip(x.title)
            content == Strip(x.content)
        IN  IF title = <<>> \/ content = <<>>
            THEN /\ last' = [NoCall EXCEPT !.op = "new_note", !.title = x.title,
                                           !.content = x.content,
                                           !.ret = "rejected"]
                 /\ UNCHANGED <<svc, notes, file, clock>>
            ELSE add_note(title, content, ts, w)
    /\ UNCHANGED outside

\* The store through its life: construction, the mutating calls, restarts
Next ==
    \/ Construct
    \/ AddNote
    \/ UpdateNote
    \/ DeleteNote
    \/ NewNoteSave

Spec == Init /\ [][Next]_vars

----------------------------------------------------------------------------
(* The read-only calls, on every collection a store can hold *)

\* the texts of the notes the read-only calls are run on
QueryTexts == Texts \cup { [title |-> <<"a">>, content |-> <<"A", "b">>] }

\* a note as the store holds it: each reading of Note.__init__ is not before
\* the one made before it, and update_note only moves updated_at forward
NoteStates ==
    { [id |-> t[1], title |-> x.title, content |-> x.content,
       created_at |-> t[2], updated_at |-> t[3]] :
        x \in QueryTexts,
        t \in {r \in [1..3 -> 1..MaxClock] : r[1] <= r[2] /\ r[2] <= r[3]} }

\* the collections: a note appended later was built after the notes before it
Collections ==
    { ns \in UNION { [1..n -> NoteStates] : n \in 0..MaxNotes } :
        \A i, j \in 1..Len(ns) : i < j => ns[i].created_at <= ns[j].id }

QueryInit ==
    /\ svc = "Loaded"
    /\ notes \in Collections
    /\ file = _save_notes(notes, NoFile(TRUE), "ok").file
    /\ clock = MaxClock
    /\ last = NoCall
    /\ sel = 0
    /\ editor = <<>>
    /\ summary = NoSummary
    /\ mail = NoMail
    /\ notesapp = NoNotesApp

QueryNext ==
    \/ GetNote
    \/ SearchNotes
    \/ GetAllNotes
    \/ SortNotes
    \/ OnSearch

QuerySpec == QueryInit /\ [][QueryNext]_vars

----------------------------------------------------------------------------
(* class Summarizer *)

\* 1 / 0.02: a score is kept as its multiple of the boost of one position
ScoreUnit == 50

\* max_sentences=3
DefaultMaxSentences == 3

\* [.!?]
Terminators == {".", "!", "?"}

\* [a-zA-Z']
WordChars ==
    { "a", "b", "c", "d", "e", "f", "g", "h", "i", "j", "k", "l", "m", "n",
      "o", "p", "q", "r", "s", "t", "u", "v", "w", "x", "y", "z", "A", "B",
      "C", "D", "E", "F", "G", "H", "I", "J", "K", "L", "M", "N", "O", "P",
      "Q", "R", "S", "T", "U", "V", "W", "X", "Y", "Z", "'" }

STOPWORDS ==
    { <<"a">>, <<"a", "n">>, <<"t", "h", "e">>, <<"a", "n", "d">>,
      <<"o", "r">>, <<"b", "u", "t">>, <<"i", "f">>,
      <<"w", "h", "i", "l", "e">>, <<"w", "i", "t", "h">>, <<"a", "t">>,
      <<"b", "y">>, <<"f", "o", "r">>, <<"f", "r", "o", "m">>,
      <<"i", "n", "t", "o">>, <<"o", "n">>, <<"o", "n", "t", "o">>,
      <<"o", "f">>, <<"t", "o">>, <<"i", "n">>, <<"o", "u", "t">>,
      <<"o", "v", "e", "r">>, <<"t", "h", "e", "n">>, <<"s", "o">>,
      <<"a", "s">>, <<"i", "s">>, <<"a", "r", "e">>, <<"w", "a", "s">>,
      <<"w", "e", "r", "e">>, <<"b", "e">>, <<"b", "e", "e", "n">>,
      <<"b", "e", "i", "n", "g">>, <<"t", "h", "i", "s">>,
      <<"t", "h", "a", "t">>, <<"i", "t">>, <<"i", "t", "s">>,
      <<"t", "h", "e", "i", "r">>, <<"t", "h", "e", "y">>,
      <<"t", "h", "e", "m">>, <<"y", "o", "u">>, <<"y", "o", "u", "r">>,
      <<"i">>, <<"w", "e">>, <<"o", "u", "r">>, <<"u", "s">>, <<"h", "e">>,
      <<"s", "h", "e">>, <<"h", "i", "s">>, <<"h", "e", "r", "s">>,
      <<"d", "o">>, <<"d", "o", "e", "s">>, <<"d", "i", "d">>,
      <<"c", "a", "n">>, <<"c", "o", "u", "l", "d">>,
      <<"s", "h", "o", "u", "l", "d">>, <<"w", "o", "u", "l", "d">>,
      <<"w", "i", "l", "l">>, <<"j", "u", "s", "t">>,
      <<"a", "b", "o", "u", "t">>, <<"n", "o", "t">>, <<"n", "o">>,
      <<"y", "e", "s">>, <<"v", "e", "r", "y">> }

\* " \n"
Separator == <<" ", "\n">>

\* the least element of a non-empty set of positions
First(ps) == CHOOSE p \in ps : \A q \in ps : p <= q

\* the last character of the run of \s that starts at i
SpaceRunEnd(s, i) ==
    First({j \in i..Len(s) : j = Len(s) \/ ~IsSpace(s[j + 1])})

\* (?<=[.!?])\s+ matches at position p
AfterTerminator(s, p) == p > 1 /\ s[p - 1] \in Terminators /\ IsSpace(s[p])

\* re.split(r"(?<=[.!?])\s+|\n", s) from position i on: the text up to the
\* leftmost match, then the rest behind the match.  At a position the first
\* alternative is tried first, and it is greedy.
RECURSIVE ReSplit(_, _)
ReSplit(s, i) ==
    LET starts == {p \in i..Len(s) : AfterTerminator(s, p) \/ s[p] = "\n"}
    IN  IF starts = {} THEN << SubSeq(s, i, Len(s)) >>
        ELSE LET b == First(starts)
                 e == IF AfterTerminator(s, b) THEN SpaceRunEnd(s, b) ELSE b
             IN  << SubSeq(s, i, b - 1) >> \o ReSplit(s, e + 1)

\* _sentences with [p for p in parts if p.strip()]
_sentences_NoStrip(text) ==
    SelectSeq(ReSplit(Strip(text), 1), LAMBDA p : Strip(p) # <<>>)

\* Summarizer._sentences
_sentences(text) ==
    LET parts == ReSplit(Strip(text), 1)
    IN  SelectSeq([k \in 1..Len(parts) |-> Strip(parts[k])],
                  LAMBDA p : p # <<>>)

\* re.findall(r"[a-zA-Z']+", s) from position i on: the leftmost longest
\* run of word characters, then the matches behind it
RECURSIVE FindAll(_, _)
FindAll(s, i) ==
    LET starts == {p \in i..Len(s) : s[p] \in WordChars}
    IN  IF starts = {} THEN <<>>
        ELSE LET b == First(starts)
                 e == First({j \in b..Len(s) :
                                j = Len(s) \/ s[j + 1] \notin WordChars})
             IN  << SubSeq(s, b, e) >> \o FindAll(s, e + 1)

\* _word_freq without the STOPWORDS test
_word_freq_AllWords(text) ==
    LET words == FindAll(Lower(text), 1)
        kept  == SelectSeq(words, LAMBDA w : ~(Len(w) <= 2))
    IN  [w \in {kept[k] : k \in DOMAIN kept} |->
            Cardinality({k \in DOMAIN kept : kept[k] = w})]

\* Summarizer._word_freq
_word_freq(text) ==
    LET words == FindAll(Lower(text), 1)
        kept  == SelectSeq(words, LAMBDA w : ~(w \in STOPWORDS \/ Len(w) <= 2))
    IN  [w \in {kept[k] : k \in DOMAIN kept} |->
            Cardinality({k \in DOMAIN kept : kept[k] = w})]

\* freq.get(w, 0)
FreqGet(freq, w) == IF w \in DOMAIN freq THEN freq[w] ELSE 0

\* sum(...)
RECURSIVE Sum(_)
Sum(s) == IF s = <<>> THEN 0 ELSE Head(s) + Sum(Tail(s))

\* max(0, n)
Max0(n) == IF n > 0 THEN n ELSE 0

\* the score of the sentence at idx, of n, whose words have the frequency sum
\* freq_sum: sum(...) + max(0, n - idx) * 0.02, in units of 0.02.  For
\* freq_sum up to 3 and n up to 58 the float scores of the code compare as
\* these integers do.
Score(freq_sum, n, idx) == ScoreUnit * freq_sum + Max0(n - idx)

\* the list scored before it is sorted: (score, idx, sent) per sentence
Scored(text) ==
    LET sentences == _sentences(text)
        freq      == _word_freq(text)
    IN  [k \in 1..Len(sentences) |->
            LET words == FindAll(Lower(sentences[k]), 1)
            IN  [score |-> Score(Sum([j \in 1..Len(words) |->
                                         FreqGet(freq, words[j])]),
                                 Len(sentences), k - 1),
                 idx   |-> k - 1,
                 sent  |-> sentences[k]]]

\* s[:n], for every int n
Prefix(s, n) ==
    IF n >= 0 THEN SubSeq(s, 1, IF n < Len(s) THEN n ELSE Len(s))
    ELSE SubSeq(s, 1, Max0(Len(s) + n))

\* top without the second sort: the chosen sentences in rank order
Top_RankOrder(text, max_sentences) ==
    Prefix(StableSort(Scored(text), "rank"), max_sentences)

\* the list top: the first max_sentences by rank, back in text order
Top(text, max_sentences) ==
    StableSort(Prefix(StableSort(Scored(text), "rank"), max_sentences), "idx")

\* " ".join(parts)
RECURSIVE Join_Blank(_)
Join_Blank(parts) ==
    IF parts = <<>> THEN <<>>
    ELSE IF Len(parts) = 1 THEN parts[1]
    ELSE parts[1] \o <<" ">> \o Join_Blank(Tail(parts))

\* " \n".join(parts)
RECURSIVE Join(_)
Join(parts) ==
    IF parts = <<>> THEN <<>>
    ELSE IF Len(parts) = 1 THEN parts[1]
    ELSE parts[1] \o Separator \o Join(Tail(parts))

\* the sentences summarize returns, as their indexes in _sentences(text)
Picked(text, max_sentences) ==
    IF text = <<>> \/ Strip(text) = <<>> THEN <<>>
    ELSE LET sentences == _sentences(text)
             top       == Top(text, max_sentences)
         IN  IF Len(sentences) <= max_sentences
             THEN [k \in 1..Len(sentences) |-> k - 1]
             ELSE [k \in 1..Len(top) |-> top[k].idx]

\* Summarizer.summarize
summarize(text, max_sentences) ==
    IF text = <<>> \/ Strip(text) = <<>> THEN <<>>
    ELSE LET sentences == _sentences(text)
             top       == Top(text, max_sentences)
         IN  IF Len(sentences) <= max_sentences
             THEN Join(sentences)
             ELSE Join([k \in 1..Len(top) |-> top[k].sent])

\* what a text is put together from
Pieces ==
    { <<"c", "a", "t">>,
      <<"D", "o", "g", " ", "c", "a", "t">>,
      <<" ", "t", "h", "e", "!">>,
      <<".", " ">>,
      <<"\n">> }

RECURSIVE Flatten(_)
Flatten(ps) == IF ps = <<>> THEN <<>> ELSE Head(ps) \o Flatten(Tail(ps))

\* four sentences of three words, every word once
ScenarioText ==
    <<"D", "o", "g", "s", " ", "b", "a", "r", "k", " ", "l", "o", "u", "d",
      "l", "y", ".", " ", "C", "a", "t", "s", " ", "n", "a", "p", " ", "q",
      "u", "i", "e", "t", "l", "y", ".", " ", "B", "i", "r", "d", "s", " ",
      "s", "i", "n", "g", " ", "s", "w", "e", "e", "t", "l", "y", ".", " ",
      "F", "i", "s", "h", " ", "s", "w", "i", "m", " ", "s", "i", "l", "e",
      "n", "t", "l", "y", ".">>

SummaryTexts ==
    {Flatten(ps) : ps \in UNION {[1..n -> Pieces] : n \in 0..MaxPieces}}
        \cup {ScenarioText}

MaxSentencesValues == (0 - 1)..DefaultMaxSentences

\* the arguments of the call, and a store that plays no part in it
SummaryInit ==
    /\ svc = "Uninitialized"
    /\ notes = <<>>
    /\ file = NoFile(TRUE)
    /\ clock = 1
    /\ last = NoCall
    /\ sel = 0
    /\ editor = <<>>
    /\ mail = NoMail
    /\ notesapp = NoNotesApp
    /\ \E text \in SummaryTexts, m \in MaxSentencesValues :
            summary = [NoSummary EXCEPT !.text = text, !.max_sentences = m]

\* Summarizer.summarize(text, max_sentences)
Summarize ==
    /\ ~summary.returned
    /\ ~summary.split
    /\ summary' = [summary EXCEPT
                        !.returned = TRUE,
                        !.picked   = Picked(summary.text, summary.max_sentences),
                        !.out      = summarize(summary.text,
                                               summary.max_sentences)]
    /\ UNCHANGED <<svc, notes, file, clock, last, sel, editor, mail, notesapp>>

\* Summarizer._sentences(text), called on its own (max_sentences plays no
\* part in it)
Sentences ==
    /\ ~summary.returned
    /\ ~summary.split
    /\ summary.max_sentences = DefaultMaxSentences
    /\ summary' = [summary EXCEPT !.split = TRUE,
                                  !.sentences = _sentences(summary.text)]
    /\ UNCHANGED <<svc, notes, file, clock, last, sel, editor, mail, notesapp>>

SummaryNext ==
    \/ Summarize
    \/ Sentences

SummarySpec == SummaryInit /\ [][SummaryNext]_vars

----------------------------------------------------------------------------
(* The ranking of summarize, on two sentences of a long text *)

\* the sentences of the longest text
MaxDocSentences == 52

\* the frequency sums of the two sentences
FreqSums == {0, 1}

\* the entries of scored for the sentences at idx i and j of a text of n
\* sentences; scored.sort orders any two entries by their keys alone
RankInit ==
    /\ svc = "Uninitialized"
    /\ notes = <<>>
    /\ file = NoFile(TRUE)
    /\ clock = 1
    /\ last = NoCall
    /\ sel = 0
    /\ editor = <<>>
    /\ mail = NoMail
    /\ notesapp = NoNotesApp
    /\ \E n \in 2..MaxDocSentences, fi \in FreqSums, fj \in FreqSums :
        \E i \in 0..(n - 1), j \in 0..(n - 1) :
            /\ i < j
            /\ summary = [n      |-> n,
                          scored |-> << [score |-> Score(fi, n, i), idx |-> i,
                                         sum |-> fi],
                                        [score |-> Score(fj, n, j), idx |-> j,
                                         sum |-> fj] >>,
                          sorted |-> FALSE]

\* scored.sort(key=lambda x: (-x[0], x[1]))
RankSort ==
    /\ ~summary.sorted
    /\ summary' = [summary EXCEPT !.scored = StableSort(@, "rank"),
                                  !.sorted = TRUE]
    /\ UNCHANGED <<svc, notes, file, clock, last, sel, editor, mail, notesapp>>

RankNext == RankSort

RankSpec == RankInit /\ [][RankNext]_vars

----------------------------------------------------------------------------
(* class EmailService and the Send button of ShorteeApp._share_email *)

\* c in s
HasChar(s, c) == \E i \in 1..Len(s) : s[i] = c

\* s.split(c) from position i on; cur is the part collected so far
RECURSIVE SplitChar(_, _, _, _)
SplitChar(s, c, i, cur) ==
    IF i > Len(s) THEN <<cur>>
    ELSE IF s[i] = c THEN <<cur>> \o SplitChar(s, c, i + 1, <<>>)
    ELSE SplitChar(s, c, i + 1, Append(cur, s[i]))

\* EmailService.is_valid_email
is_valid_email(email) ==
    /\ HasChar(email, "@")
    /\ HasChar(SplitChar(email, "@", 1, <<>>)[2], ".")

\* what the entries of the dialog, or a caller of send_email, may hold
Addresses ==
    { <<>>,
      <<" ">>,
      <<"a">>,
      <<".", "@">>,
      <<"@", ".">>,
      <<" ", "@", ".", " ">>,
      <<"@", ".", "@">>,
      <<"@", "@", ".">> }

Passwords == { <<>>, <<"a">> }

\* a callback: none given, one that returns, one that raises
Callbacks == {"none", "returns", "raises"}

\* how a call into smtplib can end
SmtpOutcomes == {"ok", "fails"}

\* server.login can also fail with SMTPAuthenticationError
LoginOutcomes == SmtpOutcomes \cup {"auth_fails"}

\* send_email with "# Validate" ahead of the thread: a missing parameter or
\* an invalid address is reported by on_error before send_email returns
send_email_ValidateFirst(recipient, sender, password, on_success, on_error) ==
    LET m == [NoMail EXCEPT !.caller = "returned", !.recipient = recipient,
                            !.sender = sender, !.password = password,
                            !.on_success = on_success, !.on_error = on_error]
    IN  IF \/ recipient = <<>> \/ sender = <<>> \/ password = <<>>
           \/ ~is_valid_email(recipient) \/ ~is_valid_email(sender)
        THEN [m EXCEPT !.pc = "done", !.exc = "ValueError",
                       !.error_calls = IF on_error = "none" THEN 0 ELSE 1,
                       !.caller = IF on_error = "raises" THEN "raised"
                                  ELSE "returned"]
        ELSE [m EXCEPT !.pc = "connect"]

\* EmailService.send_email up to thread.start(): _send is about to run.
\* subject and body are never empty where the program builds them.
send_email(recipient, sender, password, on_success, on_error) ==
    [NoMail EXCEPT !.pc = "validate", !.caller = "returned",
                   !.recipient = recipient,
                   !.sender = sender, !.password = password,
                   !.on_success = on_success, !.on_error = on_error]

\* the function send of ShorteeApp._share_email, bound to the Send button and
\* to <Return>: the answers of is_valid_email are kept in checks
ShareEmailSend ==
    /\ mail.pc \in {"idle", "done"}
    /\ \E recipient \in Addresses, sender \in Addresses, password \in Passwords :
        LET recip      == Strip(recipient)
            send_from  == Strip(sender)
            pwd        == Strip(password)
            rejected(checks) ==
                [NoMail EXCEPT !.handler = "rejected", !.checks = checks]
        IN  mail' =
                IF recip = <<>> THEN rejected(<<>>)
                ELSE IF ~is_valid_email(recip)
                THEN rejected(<< [email |-> recip, valid |-> FALSE] >>)
                ELSE IF send_from = <<>>
                THEN rejected(<< [email |-> recip, valid |-> TRUE] >>)
                ELSE IF ~is_valid_email(send_from)
                THEN rejected(<< [email |-> recip, valid |-> TRUE],
                                 [email |-> send_from, valid |-> FALSE] >>)
                ELSE IF pwd = <<>>
                THEN rejected(<< [email |-> recip, valid |-> TRUE],
                                 [email |-> send_from, valid |-> TRUE] >>)
                ELSE IF get_note(notes, sel) = <<>>
                THEN [NoMail EXCEPT !.handler = "raised",
                        !.checks = << [email |-> recip, valid |-> TRUE],
                                      [email |-> send_from, valid |-> TRUE] >>]
                ELSE [send_email(recip, send_from, pwd, "returns", "returns")
                        EXCEPT !.handler = "invoked",
                        !.checks = << [email |-> recip, valid |-> TRUE],
                                      [email |-> send_from, valid |-> TRUE] >>]
    /\ UNCHANGED <<svc, notes, file, clock, last, sel, editor, summary, notesapp>>

\* EmailService.send_email called with arguments and callbacks of any kind
SendEmail ==
    /\ mail.pc \in {"idle", "done"}
    /\ \E recipient \in Addresses, sender \in Addresses, password \in Passwords,
          on_success \in Callbacks, on_error \in Callbacks :
            mail' = send_email(recipient, sender, password, on_success, on_error)
    /\ UNCHANGED <<svc, notes, file, clock, last, sel, editor, summary, notesapp>>

\* _send: the exception e is raised inside the outer try
Raise(m, e) == [m EXCEPT !.pc = "except", !.exc = e]

\* _send: "# Validate"
SendValidate ==
    /\ mail.pc = "validate"
    /\ mail' =
        IF \/ mail.recipient = <<>> \/ mail.sender = <<>>
           \/ mail.password = <<>>
        THEN Raise(mail, "ValueError")
        ELSE IF ~is_valid_email(mail.recipient) THEN Raise(mail, "ValueError")
        ELSE IF ~is_valid_email(mail.sender) THEN Raise(mail, "ValueError")
        ELSE [mail EXCEPT !.pc = "connect"]
    /\ UNCHANGED <<svc, notes, file, clock, last, sel, editor, summary, notesapp>>

\* _send: server = smtplib.SMTP(...)
SendConnect ==
    /\ mail.pc = "connect"
    /\ \E o \in SmtpOutcomes :
            mail' = IF o = "ok" THEN [mail EXCEPT !.pc = "starttls"]
                    ELSE Raise(mail, "Exception")
    /\ UNCHANGED <<svc, notes, file, clock, last, sel, editor, summary, notesapp>>

\* _send: server.starttls()
SendStartTLS ==
    /\ mail.pc = "starttls"
    /\ \E o \in SmtpOutcomes :
            mail' = IF o = "ok" THEN [mail EXCEPT !.pc = "login"]
                    ELSE [mail EXCEPT !.pc = "quit", !.pending = "Exception"]
    /\ UNCHANGED <<svc, notes, file, clock, last, sel, editor, summary, notesapp>>

\* _send: server.login(sender, password)
SendLogin ==
    /\ mail.pc = "login"
    /\ \E o \in LoginOutcomes :
            mail' = CASE o = "ok" -> [mail EXCEPT !.pc = "send_message"]
                      [] o = "auth_fails" ->
                            [mail EXCEPT !.pc = "quit",
                                         !.pending = "SMTPAuthenticationError"]
                      [] OTHER -> [mail EXCEPT !.pc = "quit",
                                               !.pending = "Exception"]
    /\ UNCHANGED <<svc, notes, file, clock, last, sel, editor, summary, notesapp>>

\* _send: server.send_message(message)
SendMessage ==
    /\ mail.pc = "send_message"
    /\ \E o \in SmtpOutcomes :
            mail' = IF o = "ok" THEN [mail EXCEPT !.pc = "quit", !.sent = TRUE]
                    ELSE [mail EXCEPT !.pc = "quit", !.pending = "Exception"]
    /\ UNCHANGED <<svc, notes, file, clock, last, sel, editor, summary, notesapp>>

\* _send: finally: server.quit().  An exception of quit replaces the pending
\* one; without either the try statement is left at its end.
SendQuit ==
    /\ mail.pc = "quit"
    /\ \E o \in SmtpOutcomes :
            mail' = IF o # "ok"
                    THEN Raise([mail EXCEPT !.pending = "none"], "Exception")
                    ELSE IF mail.pending # "none"
                    THEN Raise([mail EXCEPT !.pending = "none"], mail.pending)
                    ELSE [mail EXCEPT !.pc = "on_success"]
    /\ UNCHANGED <<svc, notes, file, clock, last, sel, editor, summary, notesapp>>

\* _send: if on_success: on_success(recipient), still inside the outer try
SendOnSuccess ==
    /\ mail.pc = "on_success"
    /\ mail' =
        CASE mail.on_success = "none" -> [mail EXCEPT !.pc = "done"]
          [] mail.on_success = "returns" ->
                [mail EXCEPT !.pc = "done", !.success_calls = @ + 1]
          [] mail.on_success = "raises" ->
                Raise([mail EXCEPT !.success_calls = @ + 1], "Exception")
    /\ UNCHANGED <<svc, notes, file, clock, last, sel, editor, summary, notesapp>>

\* _send: the two except clauses; each ends in if on_error: on_error(error),
\* and an exception of on_error leaves _send and ends the thread
SendExcept ==
    /\ mail.pc = "except"
    /\ mail' =
        CASE mail.on_error = "none" -> [mail EXCEPT !.pc = "done"]
          [] mail.on_error = "returns" ->
                [mail EXCEPT !.pc = "done", !.error_calls = @ + 1]
          [] mail.on_error = "raises" ->
                [mail EXCEPT !.pc = "done", !.error_calls = @ + 1,
                             !.raised = TRUE]
    /\ UNCHANGED <<svc, notes, file, clock, last, sel, editor, summary, notesapp>>

\* the application with one note, selected, or with a selection whose note
\* is gone
MailInit ==
    /\ svc = "Loaded"
    /\ notes = << NoteInit(<<"B">>, <<"b">>, 0, 0, <<1, 1, 1>>) >>
    /\ file = _save_notes(notes, NoFile(TRUE), "ok").file
    /\ clock = 1
    /\ last = NoCall
    /\ sel \in Ids
    /\ editor = <<"b">>
    /\ summary = NoSummary
    /\ mail = NoMail
    /\ notesapp = NoNotesApp

MailNext ==
    \/ ShareEmailSend
    \/ SendEmail
    \/ SendValidate
    \/ SendConnect
    \/ SendStartTLS
    \/ SendLogin
    \/ SendMessage
    \/ SendQuit
    \/ SendOnSuccess
    \/ SendExcept

MailSpec == MailInit /\ [][MailNext]_vars

----------------------------------------------------------------------------
(* class ShorteeApp: the handlers that work on the selected note *)

\* what the user may leave in content_text
EditorTexts == { <<>>, <<" ">>, <<"A", "b">> }

\* ShorteeApp.__init__ on a machine without notes.json
AppInit ==
    /\ svc = "Loaded"
    /\ notes = <<>>
    /\ file = NoFile(TRUE)
    /\ clock = 1
    /\ last = NoCall
    /\ sel = 0
    /\ editor = <<>>
    /\ summary = NoSummary
    /\ mail = NoMail
    /\ notesapp = NoNotesApp

\* ShorteeApp._on_select on a click on a row of notes_tree: the rows carry
\* the ids of the notes of the store
OnSelect ==
    /\ \E i \in 1..Len(notes) :
        LET note == get_note(notes, notes[i].id)
        IN  /\ sel' = notes[i].id
            /\ editor' = note[1].content
            /\ last' = [NoCall EXCEPT !.op = "on_select", !.id = notes[i].id]
    /\ UNCHANGED <<svc, notes, file, clock, summary, mail, notesapp>>

\* the user edits content_text
TypeText ==
    /\ \E text \in EditorTexts :
        /\ text # editor
        /\ editor' = text
    /\ last' = [NoCall EXCEPT !.op = "type"]
    /\ UNCHANGED <<svc, notes, file, clock, sel, summary, mail, notesapp>>

\* a handler that shows "No note selected" and returns
NoSelection(op) ==
    /\ last' = [NoCall EXCEPT !.op = op, !.ret = "rejected"]
    /\ UNCHANGED <<svc, notes, file, clock>>

\* a handler that evaluates note.title with note = None: AttributeError
NoneTitle(op) ==
    /\ last' = [NoCall EXCEPT !.op = op, !.id = sel, !.ret = "None",
                              !.raised = TRUE]
    /\ UNCHANGED <<svc, notes, file, clock>>

\* ShorteeApp._save_note
SaveNote ==
    /\ LET note == get_note(notes, sel)
       IN  IF Falsy(sel) THEN NoSelection("save_note")
           ELSE IF note = <<>> THEN NoneTitle("save_note")
           ELSE \E r \in Readings(1), w \in DumpOutcomes :
                    update_note(sel, note[1].title, Strip(editor), r[1], w)
    /\ UNCHANGED <<sel, editor, summary, mail, notesapp>>

\* ShorteeApp._delete_note, the question answered with yes
DeleteSelected ==
    /\ IF Falsy(sel)
       THEN NoSelection("delete_note") /\ UNCHANGED editor
       ELSE /\ \E w \in DumpOutcomes : delete_note(sel, w)
            /\ editor' = <<>>
    /\ UNCHANGED <<sel, summary, mail, notesapp>>

\* ShorteeApp._summarize_note
SummarizeNote ==
    /\ LET note    == get_note(notes, sel)
           content == Strip(editor)
           shown   == [NoSummary EXCEPT
                        !.text          = content,
                        !.max_sentences = DefaultMaxSentences,
                        !.returned      = TRUE,
                        !.picked        = Picked(content, DefaultMaxSentences),
                        !.out           = summarize(content, DefaultMaxSentences)]
       IN  IF Falsy(sel)
           THEN NoSelection("summarize_note") /\ UNCHANGED summary
           ELSE IF content = <<>>
           THEN /\ last' = [NoCall EXCEPT !.op = "summarize_note", !.id = sel,
                                          !.ret = "none"]
                /\ UNCHANGED <<svc, notes, file, clock, summary>>
           ELSE IF shown.out = <<>>
           THEN /\ last' = [NoCall EXCEPT !.op = "summarize_note", !.id = sel,
                                          !.ret = "none"]
                /\ summary' = shown
                /\ UNCHANGED <<svc, notes, file, clock>>
           ELSE IF note = <<>>
           THEN NoneTitle("summarize_note") /\ summary' = shown
           ELSE /\ last' = [NoCall EXCEPT !.op = "summarize_note", !.id = sel,
                                          !.ret = "note", !.retNotes = note]
                /\ summary' = shown
                /\ UNCHANGED <<svc, notes, file, clock>>
    /\ UNCHANGED <<sel, editor, mail, notesapp>>

\* ShorteeApp._share_whatsapp and ShorteeApp._export_txt, which both start
\* with get_note(self.selected_note_id) and note.title
ShareNote ==
    /\ \E op \in {"share_whatsapp", "export_txt"} :
        LET note == get_note(notes, sel)
        IN  IF Falsy(sel) THEN NoSelection(op)
            ELSE IF note = <<>> THEN NoneTitle(op)
            ELSE /\ last' = [NoCall EXCEPT !.op = op, !.id = sel,
                                           !.ret = "note", !.retNotes = note]
                 /\ UNCHANGED <<svc, notes, file, clock>>
    /\ UNCHANGED <<sel, editor, summary, mail, notesapp>>

AppNext ==
    \/ NewNoteSave
    \/ OnSelect
    \/ TypeText
    \/ SaveNote
    \/ DeleteSelected
    \/ SummarizeNote
    \/ ShareNote

AppSpec == AppInit /\ [][AppNext]_vars

----------------------------------------------------------------------------
(* class NotesApp of src/exp1.py: the list of notes and its handlers *)

\* what the user may have in title_entry, content_text and the tags box
EntryTexts ==
    { [title |-> <<>>, content |-> <<>>, tags |-> <<>>],
      [title |-> <<"a">>, content |-> <<"b">>, tags |-> <<>>],
      [title |-> <<" ", "B">>, content |-> <<"a">>, tags |-> <<"w">>] }

\* what the user may have in search_entry
SearchTexts == { <<>>, <<"A">>, <<"b">> }

\* datetime.now().strftime("%Y-%m-%d %H:%M") is kept as the clock reading
\* (in minutes) it encodes; the dict built from the entries
EntryNote(a, now) ==
    [title |-> Strip(a.title_entry), content |-> Strip(a.content_text),
     tags |-> a.tags_var, date |-> now]

\* NotesApp.clear_entries
clear_entries(a) ==
    [a EXCEPT !.title_entry = <<>>, !.content_text = <<>>, !.tags_var = <<>>]

\* NotesApp.update_listbox: notes_listbox shows filtered_notes row by row;
\* notes_listbox.delete(0, tk.END) leaves no row selected
update_listbox(a) ==
    LET found  == IF a.current_search # <<>>
                  THEN SelectSeq(a.notes, LAMBDA n :
                            \/ Contains(Lower(n.title), a.current_search)
                            \/ Contains(Lower(n.content), a.current_search))
                  ELSE a.notes
        sorted == CASE a.sort_by = "date_desc" -> SortedReverse(found, "date")
                    [] a.sort_by = "date_asc"  -> StableSort(found, "date")
                    [] a.sort_by = "title_az"  -> StableSort(found, "title_lower")
                    [] a.sort_by = "title_za"  ->
                            SortedReverse(found, "title_lower")
                    [] OTHER -> found
    IN  [a EXCEPT !.filtered_notes = sorted, !.selection = <<>>]

\* NotesApp.save_notes up to open(): the selected index, taken as an index of
\* self.notes, gets the tag of the tags box and the time now
save_notes(a, now) ==
    IF a.selection # <<>>
    THEN [a EXCEPT !.notes[a.selection[1] + 1].tags = a.tags_var,
                   !.notes[a.selection[1] + 1].date = now]
    ELSE a

\* NotesApp.save_notes from open() on: json.dump(self.notes, f) into
\* notes.json; a failure behind open() leaves no valid JSON
DumpNotes(ns, f, w) ==
    IF w = "ok"
    THEN [f EXCEPT !.exists = TRUE, !.readable = TRUE, !.json = TRUE,
                   !.data = ns]
    ELSE [f EXCEPT !.exists = TRUE, !.readable = TRUE, !.json = FALSE,
                   !.data = <<>>]

\* the end of a handler that has changed self.notes: update_listbox(),
\* save_notes().  op names the handler, row the index it used (counted from
\* 1) and touched the note of self.notes it replaced or removed.
Refresh(a, op, row, touched, now, w) ==
    LET shown == update_listbox(a)
    IN  /\ notesapp' = save_notes(shown, now)
        /\ file' = DumpNotes(save_notes(shown, now).notes, file, w)
        /\ clock' = now
        /\ last' = [NoCall EXCEPT !.op = op, !.id = row, !.retNotes = touched,
                                  !.save = SaveResult(w = "ok"),
                                  !.raised = w # "ok"]

\* messagebox.showwarning and return
Warning(op) ==
    /\ last' = [NoCall EXCEPT !.op = op, !.ret = "rejected"]
    /\ UNCHANGED <<notesapp, file, clock>>

\* NotesApp.add_note
NotesApp_add_note(op, now, w) ==
    LET new == EntryNote(notesapp, now)
    IN  IF new.title # <<>> /\ new.content # <<>>
        THEN /\ Len(notesapp.notes) < MaxNotes
             /\ Refresh(clear_entries([notesapp EXCEPT
                                            !.notes = Append(@, new)]),
                        op, 0, <<>>, now, w)
        ELSE Warning(op)

\* the body of edit_note, and of save_current, under "if selection:"
Overwrite(op, now, w) ==
    LET idx == notesapp.selection[1]
        new == EntryNote(notesapp, now)
    IN  IF new.title # <<>> /\ new.content # <<>>
        THEN Refresh([notesapp EXCEPT !.notes[idx + 1] = new],
                     op, idx + 1, << notesapp.notes[idx + 1] >>, now, w)
        ELSE Warning(op)

\* the state after NotesApp.__init__ where no notes.json exists
NotesAppInit ==
    /\ svc = "Uninitialized"
    /\ notes = <<>>
    /\ file = NoFile(TRUE)
    /\ clock = 1
    /\ last = NoCall
    /\ sel = 0
    /\ editor = <<>>
    /\ summary = NoSummary
    /\ mail = NoMail
    /\ notesapp = update_listbox(NoNotesApp)

\* the user fills the entries
FillEntries ==
    /\ \E e \in EntryTexts :
        /\ <<e.title, e.content, e.tags>>
                # <<notesapp.title_entry, notesapp.content_text,
                    notesapp.tags_var>>
        /\ notesapp' = [notesapp EXCEPT !.title_entry = e.title,
                                        !.content_text = e.content,
                                        !.tags_var = e.tags]
    /\ last' = [NoCall EXCEPT !.op = "fill"]
    /\ UNCHANGED <<svc, notes, file, clock, sel, editor, summary, mail>>

\* a click on a row of notes_listbox, and NotesApp.on_select
NotesApp_on_select ==
    /\ \E idx \in 0..(Len(notesapp.filtered_notes) - 1) :
        LET note == notesapp.notes[idx + 1]
        IN  /\ notesapp' = [notesapp EXCEPT !.selection = <<idx>>,
                                            !.title_entry = note.title,
                                            !.content_text = note.content,
                                            !.tags_var = note.tags]
            /\ last' = [NoCall EXCEPT !.op = "on_select", !.id = idx + 1,
                                      !.retNotes = <<note>>]
    /\ UNCHANGED <<svc, notes, file, clock, sel, editor, summary, mail>>

\* NotesApp.on_search
NotesApp_on_search ==
    /\ \E text \in SearchTexts :
        /\ notesapp' = update_listbox([notesapp EXCEPT
                                            !.current_search = Lower(text)])
        /\ last' = [NoCall EXCEPT !.op = "on_search", !.query = text]
    /\ UNCHANGED <<svc, notes, file, clock, sel, editor, summary, mail>>

\* the New Note button
NewNote ==
    /\ \E r \in Readings(1), w \in DumpOutcomes :
            NotesApp_add_note("add_note", r[1], w)
    /\ UNCHANGED <<svc, notes, sel, editor, summary, mail>>

\* NotesApp.save_current: the Save button
NotesApp_save_current ==
    /\ \E r \in Readings(1), w \in DumpOutcomes :
            IF notesapp.selection # <<>>
            THEN Overwrite("save_current", r[1], w)
            ELSE NotesApp_add_note("save_current", r[1], w)
    /\ UNCHANGED <<svc, notes, sel, editor, summary, mail>>

\* NotesApp.edit_note: the Edit button
NotesApp_edit_note ==
    /\ \E r \in Readings(1), w \in DumpOutcomes :
            IF notesapp.selection # <<>>
            THEN Overwrite("edit_note", r[1], w)
            ELSE Warning("edit_note")
    /\ UNCHANGED <<svc, notes, sel, editor, summary, mail>>

\* NotesApp.delete_note: the Delete button, the question answered with yes
NotesApp_delete_note ==
    /\ \E w \in DumpOutcomes :
            IF notesapp.selection # <<>>
            THEN LET idx == notesapp.selection[1]
                 IN  Refresh(clear_entries([notesapp EXCEPT
                                                !.notes = Pop(@, idx + 1)]),
                             "delete_note", idx + 1,
                             << notesapp.notes[idx + 1] >>, clock, w)
            ELSE Warning("delete_note")
    /\ UNCHANGED <<svc, notes, sel, editor, summary, mail>>

\* NotesApp.save_notes from the menu entry Save All
SaveAll ==
    /\ \E r \in Readings(1), w \in DumpOutcomes :
        LET saved == save_notes(notesapp, r[1])
        IN  /\ notesapp' = saved
            /\ file' = DumpNotes(saved.notes, file, w)
            /\ clock' = IF notesapp.selection # <<>> THEN r[1] ELSE clock
            /\ last' = [NoCall EXCEPT !.op = "save_notes",
                                      !.save = SaveResult(w = "ok"),
                                      !.raised = w # "ok"]
    /\ UNCHANGED <<svc, notes, sel, editor, summary, mail>>

NotesAppNext ==
    \/ FillEntries
    \/ NotesApp_on_select
    \/ NotesApp_on_search
    \/ NewNote
    \/ NotesApp_save_current
    \/ NotesApp_edit_note
    \/ NotesApp_delete_note
    \/ SaveAll

NotesAppSpec == NotesAppInit /\ [][NotesAppNext]_vars

----------------------------------------------------------------------------
(* Properties of the note store *)

\* the records of a collection, as _save_notes writes them
Dicts(ns) == [i \in 1..Len(ns) |-> to_dict(ns[i])]

\* no note of ns has this id
Absent(ns, note_id) == \A i \in 1..Len(ns) : ns[i].id # note_id

\* empty after trimming
Blank(s) == Strip(s) = <<>>

\* C1: add_note(title, content) rejects the call when title or content is
\* empty after trimming, leaving the collection and the file as they were;
\* otherwise it appends exactly one new note and returns it.
C1_AddValidates ==
    [][last'.op = "add" =>
          IF Blank(last'.title) \/ Blank(last'.content)
          THEN /\ last'.ret = "rejected"
               /\ notes' = notes
               /\ file' = file
          ELSE /\ last'.ret = "note"
               /\ notes' = Append(notes, last'.retNotes[1])]_vars

\* C2: update_note and delete_note on an id that no note of the collection
\* has return False, raise nothing, leave the collection as it was and do not
\* write the file.
C2_NotFoundNoEffect ==
    [][(last'.op \in {"update", "delete"} /\ Absent(notes, last'.id)) =>
          /\ last'.ret = "False"
          /\ ~last'.raised
          /\ last'.save = "not_called"
          /\ notes' = notes
          /\ file' = file]_vars

\* a not-found update on a non-empty collection whose file a write would change
C2_Witness ==
    /\ last.op = "update"
    /\ last.ret = "False"
    /\ notes # <<>>
    /\ Absent(notes, last.id)
    /\ file.writable
    /\ file.data # Dicts(notes)

\* C3: when the write of the file fails during add_note, update_note or
\* delete_note, the result of the call differs from the result of a call whose
\* write succeeded, and the collection holds the attempted change.
C3_WriteFailureSurfaced ==
    [][(last'.op \in {"add", "update", "delete"} /\ last'.save = "failed") =>
          /\ last'.ret \notin {"note", "True"}
          /\ last'.op = "add" => Len(notes') = Len(notes) + 1
          /\ last'.op = "delete" => Len(notes') = Len(notes) - 1
          /\ last'.op = "update" =>
                \E i \in 1..Len(notes') :
                    /\ notes'[i].id = last'.id
                    /\ notes'[i].title = last'.title
                    /\ notes'[i].content = last'.content]_vars

\* C4: writing a collection with _save_notes and loading the file into a
\* fresh store gives the same number of notes, in the same order, with the
\* same id, title, content, created_at and updated_at.  (Every file of full
\* records is one that _save_notes wrote; a load leaves it as it is.)
C4_RoundTrip ==
    (last.op = "construct" /\ LoadSucceeds(file)) =>
        /\ Len(notes) = Len(file.data)
        /\ \A i \in 1..Len(notes) :
              \A k \in NoteFields : to_dict(notes[i])[k] = file.data[i][k]

\* C5: after add_note(t, c) with non-empty t and c returned note n and wrote
\* the file, a fresh store on that (readable) file finds n.id with get_note,
\* and the note found has title t and content c.
C5_AddThenReload ==
    [][(/\ last.op = "add"
        /\ last.save = "ok"
        /\ ~Blank(last.title)
        /\ ~Blank(last.content)
        /\ file.readable
        /\ last'.op = "construct") =>
          LET found == get_note(notes', last.retNotes[1].id)
          IN  /\ found # <<>>
              /\ found[1].title = last.title
              /\ found[1].content = last.content]_vars

\* C6: no two notes of the collection have the same id, and no operation
\* changes the id of a note.
C6_UniqueStableIds ==
    [][/\ \A i, j \in 1..Len(notes') : i # j => notes'[i].id # notes'[j].id
       /\ last'.op \in {"add", "update"} =>
             \A i \in 1..Len(notes) : notes'[i].id = notes[i].id]_vars

\* C7: every note of the collection has updated_at >= created_at.
C7_UpdatedNotBeforeCreated ==
    \A i \in 1..Len(notes) : notes[i].updated_at >= notes[i].created_at

\* a loaded store in which a note was updated after the clock had advanced
C7_Witness ==
    /\ last.op = "update"
    /\ last.ret = "True"
    /\ \E i \in 1..Len(notes) :
          /\ notes[i].id = last.id
          /\ notes[i].updated_at > notes[i].created_at

\* C8: constructing a store raises nothing and ends in Loaded; on a file
\* that is missing, unreadable, not JSON or short of a field the collection
\* is empty and, unless the file is missing, the error is logged; on a valid
\* list of records the collection is exactly those records in file order.
C8_ConstructLoads ==
    last.op = "construct" =>
        /\ svc = "Loaded"
        /\ ~last.raised
        /\ IF LoadSucceeds(file)
           THEN Dicts(notes) = file.data
           ELSE /\ notes = <<>>
                /\ file.exists => last.error

\* the note's title or content contains q once both are lower-cased
Matches(n, q) ==
    \/ Contains(Lower(n.title), Lower(q))
    \/ Contains(Lower(n.content), Lower(q))

\* C9: for a non-empty query q, search_notes(q) returns exactly the notes
\* whose title or content contains q once both are lower-cased: every such
\* note, no other note, each once, in the collection's order.
C9_SearchExact ==
    (last.op = "search" /\ last.query # <<>>) =>
        \E f \in [1..Len(last.retNotes) -> 1..Len(notes)] :
            /\ \A k, l \in 1..Len(last.retNotes) : k < l => f[k] < f[l]
            /\ \A k \in 1..Len(last.retNotes) : last.retNotes[k] = notes[f[k]]
            /\ {f[k] : k \in 1..Len(last.retNotes)}
                  = {i \in 1..Len(notes) : Matches(notes[i], last.query)}

\* a search that finds the second of two notes, by case folding, and not the
\* first
C9_Witness ==
    /\ last.op = "search"
    /\ last.query = <<"A", "B">>
    /\ Len(notes) = 2
    /\ last.retNotes = <<notes[2]>>
    /\ notes[1] # notes[2]

\* the order a criterion asks for: a may stand before b
InOrder(sort_by, a, b) ==
    CASE sort_by = "date_desc" -> a.created_at >= b.created_at
      [] sort_by = "date_asc"  -> a.created_at <= b.created_at
      [] sort_by = "title"     -> ~StrLess(b.title, a.title)

\* a and b have the same key under the criterion
SameKey(sort_by, a, b) ==
    IF sort_by = "title" THEN a.title = b.title ELSE a.created_at = b.created_at

\* C10: sort_notes returns a permutation of the collection, by created_at
\* descending for 'date_desc', ascending for 'date_asc', by raw title
\* ascending for 'title', notes with equal keys in insertion order; any other
\* criterion returns the notes in insertion order.
C10_SortOrdered ==
    last.op = "sort" =>
        IF last.sort_by \in {"date_desc", "date_asc", "title"}
        THEN \E p \in [1..Len(notes) -> 1..Len(notes)] :
                /\ Len(last.retNotes) = Len(notes)
                /\ \A k, l \in 1..Len(notes) : k # l => p[k] # p[l]
                /\ \A k \in 1..Len(notes) : last.retNotes[k] = notes[p[k]]
                /\ \A k, l \in 1..Len(notes) : k < l =>
                      /\ InOrder(last.sort_by, notes[p[k]], notes[p[l]])
                      /\ SameKey(last.sort_by, notes[p[k]], notes[p[l]])
                            => p[k] < p[l]
        ELSE last.retNotes = notes

\* a date_desc sort of two different notes created at the same reading
C10_Witness ==
    /\ last.op = "sort"
    /\ last.sort_by = "date_desc"
    /\ Len(notes) = 2
    /\ notes[1].created_at = notes[2].created_at
    /\ notes[1] # notes[2]
    /\ last.retNotes = notes

\* every collection the store reaches is one the read-only calls are run on
StoreShape == notes \in Collections

----------------------------------------------------------------------------
(* Properties of the summarizer *)

\* the parts with " \n" between neighbours
RECURSIVE Glue(_)
Glue(parts) ==
    IF parts = <<>> THEN <<>>
    ELSE IF Len(parts) = 1 THEN parts[1]
    ELSE Glue(SubSeq(parts, 1, Len(parts) - 1)) \o <<" ", "\n">>
            \o parts[Len(parts)]

\* C11: when the text segments into k sentences and max_sentences >= k,
\* summarize returns all k sentences, each once, in their original order,
\* joined by " \n"; an empty or whitespace-only text gives "".
C11_AllWhenRoom ==
    summary.returned =>
        LET sentences == _sentences(summary.text)
        IN  /\ Blank(summary.text) => summary.out = <<>>
            /\ (~Blank(summary.text)
                    /\ summary.max_sentences >= Len(sentences)) =>
                    /\ summary.out = Glue(sentences)
                    /\ summary.picked = [k \in 1..Len(sentences) |-> k - 1]

C11_Witness ==
    /\ summary.returned
    /\ Len(_sentences(summary.text)) = 3
    /\ summary.max_sentences = 3
    /\ summary.out = Glue(_sentences(summary.text))

\* C12: every sentence of the output is a sentence of the input, and the
\* sentences of the output stand in strictly increasing order of their
\* position in the input, whatever their scores.
C12_ExtractiveInOrder ==
    summary.returned =>
        LET sentences == _sentences(summary.text)
            p         == summary.picked
        IN  /\ \A k \in 1..Len(p) : p[k] \in 0..(Len(sentences) - 1)
            /\ \A k \in 1..(Len(p) - 1) : p[k] < p[k + 1]
            /\ summary.out = Glue([k \in 1..Len(p) |-> sentences[p[k] + 1]])

\* the last of three sentences outscores the first, and both are chosen
C12_Witness ==
    /\ summary.returned
    /\ summary.picked = <<0, 2>>
    /\ Scored(summary.text)[3].score > Scored(summary.text)[1].score

\* the score of sentence idx as the sum, over its tokens that are no stop
\* words and longer than 2, of their count among the tokens doc of the whole
\* text, plus (number of sentences - idx) * 0.02; in units of 0.02
RankScore(sentences, doc, idx) ==
    LET tokens     == FindAll(Lower(sentences[idx + 1]), 1)
        counted(t) == t \notin STOPWORDS /\ Len(t) > 2
    IN  ScoreUnit * Sum([j \in 1..Len(tokens) |->
                            IF counted(tokens[j])
                            THEN Cardinality({d \in 1..Len(doc) :
                                                doc[d] = tokens[j]})
                            ELSE 0])
            + (Len(sentences) - idx)

\* C13: when the text has more than max_sentences sentences and
\* max_sentences >= 1, summarize chooses exactly max_sentences of them: the
\* first max_sentences under the ranking (-score, idx); of the four
\* equally scored sentences of the scenario text it keeps the first two.
C13_TopByRank ==
    LET sentences == _sentences(summary.text)
        doc       == FindAll(Lower(summary.text), 1)
        idxs      == 0..(Len(sentences) - 1)
        p         == summary.picked
        score     == [i \in idxs |-> RankScore(sentences, doc, i)]
        ahead(i, j) ==
            \/ score[i] > score[j]
            \/ score[i] = score[j] /\ i < j
    IN  (summary.returned /\ summary.max_sentences >= 1
            /\ Len(sentences) > summary.max_sentences) =>
            /\ Len(p) = summary.max_sentences
            /\ {p[k] : k \in 1..Len(p)} =
                    {i \in idxs :
                        Cardinality({j \in idxs : ahead(j, i)})
                            < summary.max_sentences}
            /\ (summary.text = ScenarioText /\ summary.max_sentences = 2) =>
                    p = <<0, 1>>

C13_Witness ==
    /\ summary.returned
    /\ summary.text = ScenarioText
    /\ summary.max_sentences = 2
    /\ Len(_sentences(summary.text)) = 4
    /\ summary.picked = <<0, 1>>

\* the positions of text where a sentence ends: a whitespace character right
\* behind '.', '!' or '?', and every newline
Cuts(text) ==
    {p \in 1..Len(text) :
        \/ text[p] = "\n"
        \/ p > 1 /\ text[p - 1] \in Terminators /\ text[p] \in {" ", "\n"}}

\* the stretches of text between two neighbouring cuts, trimmed, the empty
\* ones left out, in the order of the text
Fragments(text) ==
    LET ends    == Cuts(text) \cup {Len(text) + 1}
        begins  == Cuts(text) \cup {0}
        frag(a) == Strip(SubSeq(text, a + 1, First({e \in ends : e > a}) - 1))
        kept    == {a \in begins : frag(a) # <<>>}
    IN  [k \in 1..Cardinality(kept) |->
            frag(CHOOSE a \in kept :
                    Cardinality({b \in kept : b < a}) = k - 1)]

\* C24, as stated: _sentences(text) is the sequence of the non-empty trimmed
\* stretches between the cuts of text, in text order, and for a text without
\* '.', '!', '?' and newline it is the one-element sequence of the trimmed text
C24_SentencesAsStated ==
    summary.split =>
        LET text == summary.text
        IN  /\ summary.sentences = Fragments(text)
            /\ (\A p \in 1..Len(text) : text[p] \notin Terminators \cup {"\n"})
                    => summary.sentences = << Strip(text) >>

\* C24, amended: the same, but a text without '.', '!', '?' and newline gives
\* the one-element sequence only when it is not blank; a blank text gives the
\* empty sequence
C24_Sentences ==
    summary.split =>
        LET text == summary.text
        IN  /\ summary.sentences = Fragments(text)
            /\ \A k \in 1..Len(summary.sentences) :
                    LET p == summary.sentences[k]
                    IN  p # <<>> /\ ~IsSpace(p[1]) /\ ~IsSpace(p[Len(p)])
            /\ (\A p \in 1..Len(text) : text[p] \notin Terminators \cup {"\n"})
                    => summary.sentences = IF Strip(text) = <<>> THEN <<>>
                                           ELSE << Strip(text) >>

\* a text cut at a newline, with a blank to trim at the head of a sentence
C24_Witness ==
    /\ summary.split
    /\ summary.text = <<"c", "a", "t", "\n", " ", "t", "h", "e", "!", ".", " ",
                        "c", "a", "t">>
    /\ summary.sentences
            = << <<"c", "a", "t">>, <<"t", "h", "e", "!", ".">>,
                 <<"c", "a", "t">> >>

\* C26: for every text and every int max_sentences, 0 and the negative ones
\* included, summarize returns at most max(0, max_sentences) sentences
C26_AtMostMax ==
    summary.returned => Len(summary.picked) <= Max0(summary.max_sentences)

\* C27: whatever the number of sentences and the distance between the two,
\* a sentence with the strictly greater frequency sum ranks ahead of the other
C27_FrequencyFirst ==
    summary.sorted =>
        \A a, b \in 1..2 :
            summary.scored[a].sum > summary.scored[b].sum => a < b

----------------------------------------------------------------------------
(* Properties of the e-mail service *)

\* C15: whatever the outcome of a send_email call (validation failure,
\* failure to connect, of TLS, login or send, failure of server.quit, a
\* success callback that raises, or success), exactly one of on_success and
\* on_error is invoked, and it is invoked once.
C15_ExactlyOneCallback ==
    (mail.on_success # "none" /\ mail.on_error # "none") =>
        /\ mail.success_calls + mail.error_calls <= 1
        /\ mail.pc = "done" => mail.success_calls + mail.error_calls = 1

\* the address holds an '@' and, somewhere behind an '@', a '.'
ShapeOK(e) ==
    \E i \in 1..Len(e) : \E j \in (i + 1)..Len(e) : e[i] = "@" /\ e[j] = "."

\* C16: the Send button never calls send_email with a recipient or sender
\* that fails the shape check, and is_valid_email(e) is true exactly when e
\* holds an '@' and a '.' somewhere after the '@', also for an address with
\* more than one '@'.
C16_ValidShape ==
    /\ mail.handler = "invoked" =>
            ShapeOK(mail.recipient) /\ ShapeOK(mail.sender)
    /\ \A k \in 1..Len(mail.checks) :
            mail.checks[k].valid <=> ShapeOK(mail.checks[k].email)

\* C25: send_email returns to its caller without raising and without having
\* called a callback; the callbacks are called by the thread that runs _send,
\* and a failure of that thread, a missing parameter and an invalid address
\* included, is reported by on_error there
C25_FailuresOnThread ==
    [][/\ (mail.pc \in {"idle", "done"} /\ mail'.caller # "none") =>
            /\ mail'.caller = "returned"
            /\ mail'.pc = "validate"
            /\ mail'.success_calls = 0
            /\ mail'.error_calls = 0
       /\ mail'.success_calls > mail.success_calls => mail.pc = "on_success"
       /\ mail'.error_calls > mail.error_calls => mail.pc = "except"
       /\ (mail'.pc = "done" /\ mail'.exc # "none" /\ mail'.on_error # "none") =>
            mail'.error_calls = 1]_vars

\* a call without recipient has returned, and the thread has reported the
\* ValueError through on_error
C25_Witness ==
    /\ mail.caller = "returned"
    /\ mail.recipient = <<>>
    /\ mail.pc = "done"
    /\ mail.exc = "ValueError"
    /\ mail.error_calls = 1
    /\ mail.success_calls = 0

\* C29: when on_error is called the message was not handed to the server, and
\* when send_message has completed on_success is called and on_error is not;
\* a failure of server.quit() behind a completed send is no error
C29_ErrorMeansNotSent ==
    /\ mail.error_calls > 0 => ~mail.sent
    /\ (mail.pc = "done" /\ mail.sent /\ mail.on_success # "none") =>
            mail.success_calls > 0

----------------------------------------------------------------------------
(* Properties of the application *)

\* C17: a handler that works on a note id which is no longer in the store
\* reports that the note is not there and never raises; that is,
\* selected_note_id is always unset or the id of a note of the store.
C17_SelectionInStore ==
    /\ Falsy(sel) \/ ~Absent(notes, sel)
    /\ ~last.raised

\* C18: after any sequence of creations and saves through the application
\* and the store, every note of the collection and of the file has a
\* non-empty title and a non-empty content; an update whose title or
\* content is empty after trimming is rejected with a validation error and
\* leaves the note as it was.
C18_NoEmptyFields ==
    [][/\ \A i \in 1..Len(notes') :
            ~Blank(notes'[i].title) /\ ~Blank(notes'[i].content)
       /\ \A i \in 1..Len(file'.data) :
            ~Blank(file'.data[i].title) /\ ~Blank(file'.data[i].content)
       /\ (last'.op = "update"
                /\ (Blank(last'.title) \/ Blank(last'.content))) =>
            /\ last'.ret = "rejected"
            /\ notes' = notes
            /\ file' = file]_vars

----------------------------------------------------------------------------
(* Properties of update_note and delete_note *)

\* C19: a successful update_note changes only title, content and updated_at
\* of the matching note; its id, its created_at and its position stay, every
\* other note stays as it was, and so do the length and the order of the
\* collection.
C19_UpdateFrame ==
    [][(last'.op = "update" /\ last'.ret = "True") =>
        /\ Len(notes') = Len(notes)
        /\ \E i \in 1..Len(notes) :
            /\ notes[i].id = last'.id
            /\ notes'[i].id = notes[i].id
            /\ notes'[i].created_at = notes[i].created_at
            /\ notes'[i].title = last'.title
            /\ notes'[i].content = last'.content
            /\ \A j \in 1..Len(notes) : j # i => notes'[j] = notes[j]]_vars

\* the first of two notes was updated after it was created
C19_Witness ==
    /\ last.op = "update"
    /\ last.ret = "True"
    /\ Len(notes) = 2
    /\ notes[1].id = last.id
    /\ notes[2].id # last.id
    /\ notes[1].title = last.title
    /\ notes[1].content = last.content
    /\ notes[1].updated_at > notes[1].created_at

\* C20: after delete_note(id) has returned True, get_note(id) returns None,
\* the file holds no record with that id, the collection is one shorter,
\* and the notes that remain keep their fields and their order.  The file
\* is looked at only when the write succeeded.
C20_DeleteRemoves ==
    [][(last'.op = "delete" /\ last'.ret = "True") =>
        /\ get_note(notes', last'.id) = <<>>
        /\ last'.save = "ok" =>
                \A k \in 1..Len(file'.data) : file'.data[k].id # last'.id
        /\ Len(notes') = Len(notes) - 1
        /\ \E i \in 1..Len(notes) : notes' = Pop(notes, i)]_vars

----------------------------------------------------------------------------
(* Properties of the file against the collection *)

\* C21: after every add_note, update_note or delete_note whose write succeeded,
\* the file holds exactly the records of the collection, in the same order,
\* each with the id, title, content, created_at and updated_at of its note
C21_FileMatchesMemory ==
    (last.op \in {"add", "update", "delete"} /\ last.save = "ok") =>
        /\ file.exists
        /\ file.json
        /\ Len(file.data) = Len(notes)
        /\ \A i \in 1..Len(notes) :
                /\ DOMAIN file.data[i] = NoteFields
                /\ \A k \in NoteFields : file.data[i][k] = notes[i][k]

\* the first of two notes was updated after its creation and written
C21_Witness ==
    /\ last.op = "update"
    /\ last.save = "ok"
    /\ Len(notes) = 2
    /\ notes[1].id = last.id
    /\ notes[1].updated_at > notes[1].created_at
    /\ file.data[1].updated_at = notes[1].updated_at

----------------------------------------------------------------------------
(* Properties of the read-only calls *)

\* C22: get_note, search_notes, get_all_notes and sort_notes (with any
\* criterion, recognised or not) leave the collection and the file as they are
C22_ReadOnly ==
    [][last'.op \in {"get", "search", "get_all", "sort"} =>
            /\ notes' = notes
            /\ file' = file]_vars

\* sort_notes has returned two notes in another order than the store's
C22_Witness ==
    /\ last.op = "sort"
    /\ Len(notes) = 2
    /\ last.retNotes # notes
    /\ file.data = [i \in 1..2 |-> to_dict(notes[i])]

\* a and b hold the same elements, each as often
SameElements(a, b) ==
    /\ Len(a) = Len(b)
    /\ \A i \in 1..Len(a) :
            Cardinality({j \in 1..Len(a) : a[j] = a[i]})
                = Cardinality({j \in 1..Len(b) : b[j] = a[i]})

\* C23: with an empty query the search box shows all notes of the store, and
\* search_notes("") returns the same notes, for every collection
C23_EmptyQueryShowsAll ==
    (last.op = "on_search" /\ last.query = <<>>) =>
        /\ SameElements(last.retNotes, notes)
        /\ SameElements(search_notes(notes, <<>>), notes)

----------------------------------------------------------------------------
(* Properties of a store that started from a file it could not load *)

\* C28: when the file exists but cannot be loaded (unreadable or malformed),
\* so that the store started empty, the records the file holds are still in
\* it after every add_note, update_note and delete_note
C28_FailedLoadKeepsRecords ==
    [][(/\ svc = "Loaded"
        /\ file.exists
        /\ ~LoadSucceeds(file)
        /\ last'.op \in {"add", "update", "delete"}) =>
            \A k \in 1..Len(file.data) :
                \E m \in 1..Len(file'.data) : file'.data[m] = file.data[k]]_vars

----------------------------------------------------------------------------
(* Properties of NotesApp (src/exp1.py) *)

\* C30: the note that on_select loads, that edit_note and save_current
\* overwrite and that delete_note removes is the note shown at the selected
\* row of the listbox, for every search text and every order of self.notes
C30_RowIsNote ==
    [][(/\ last'.op \in {"on_select", "edit_note", "save_current",
                          "delete_note"}
        /\ last'.retNotes # <<>>) =>
            last'.retNotes = << notesapp.filtered_notes[last'.id] >>]_vars

============================================================================
